---------------------------- MODULE Spec2Model ----------------------------
(***************************************************************************)
(* VisionComponent of the Necrometer: the reconciliation effect that       *)
(* merges detections() into arEntities, the per-frame physics and          *)
(* targeting step (updateAREntities), the spawn policy                     *)
(* (getNewSpawnPosition) and the environmental scan gate                   *)
(* (scanEnvironment) with its setTimeout callbacks.                        *)
(*                                                                         *)
(* Numbers.  The component computes on IEEE doubles.  The model computes   *)
(* on fixed-point integers: one unit is 10^-5 of a viewport percent (for   *)
(* positions) or 10^-5 percent per frame (for velocities, accelerations), *)
(* so that every physics constant of the source is a whole number of      *)
(* units.  Products are rounded toward zero.  Math.random() is a value in  *)
(* 0 .. RandDen-1 read as r / RandDen.  Time is in milliseconds.           *)
(***************************************************************************)
EXTENDS Integers, Sequences, FiniteSets, TLC

VARIABLES
    detections,             \* the detections() input signal (upstream list)
    arEntities,             \* arEntities signal
    targetedEntity,         \* targetedEntity signal (an entity record or Null)
    isScanningEnvironment,  \* isScanningEnvironment signal
    scanError,              \* scanError signal (Null or a message)
    sceneObjects,           \* sceneObjects signal
    credits,                \* UpgradeService credit balance
    scans,                  \* scanEnvironment() invocations suspended at an await
    timers,                 \* pending setTimeout callbacks, [kind, due]
    now,                    \* Date.now(), milliseconds
    lastOp,                 \* the handler that ran last, and how it ended
    scanDone,               \* completion of the latest successful scan, or Null
    scanPromise,            \* promise of the latest accepted scanEnvironment()
    cues,                   \* playInteractionHum() calls of the last frame, per entity
    nFrames,                \* physics frames run so far
    nChanges,               \* upstream-list changes so far
    lifecycle,              \* "constructed", "initialised" (ngOnInit ran) or "destroyed"
    animationFrameId,       \* animationFrameId field (0 for null)
    rafQueue,               \* ids of the pending requestAnimationFrame callbacks
    rafIds,                 \* requestAnimationFrame calls made so far
    lastCue,                \* per id in the list: time of its last playInteractionHum()
    errorSetAt,             \* time the current scanError was set
    ledger,                 \* the balance at construction, and the scans succeeded since
    probe                   \* a function applied on its own: its inputs and result

vars == <<detections, arEntities, targetedEntity, isScanningEnvironment,
          scanError, sceneObjects, credits, scans, timers, now, lastOp,
          scanDone, scanPromise, cues, nFrames, nChanges, lifecycle,
          animationFrameId, rafQueue, rafIds, lastCue, errorSetAt, ledger,
          probe>>

entityVars == <<detections, arEntities, targetedEntity, cues, nFrames, nChanges,
                lastCue>>

scanVars == <<isScanningEnvironment, scanError, sceneObjects, credits, scans,
              timers, scanDone, scanPromise, errorSetAt, ledger>>

loopVars == <<lifecycle, animationFrameId, rafQueue, rafIds>>

\* JavaScript null (a record, so that it compares with entity records).
Null == [null |-> TRUE]

\* The value of an optional number that is not set (undefined).
Undefined == -1

(***************************************************************************)
(* Bounds of the model.                                                    *)
(***************************************************************************)
MaxCredits == 11
MaxTime == 21000
MaxFrames == 1
MaxChanges == 2

\* Steps by which the clock advances between events (ms).
TickSteps == {1000, 5000}

(***************************************************************************)
(* Scan gate: scanEnvironment() and its timers.                            *)
(***************************************************************************)
scanCost == 5
ErrorClearDelay == 4000
SceneClearDelay == 15000

InsufficientCredits == [message |-> "Insufficient Credits. Requires 5 NC."]
SceneAnalysisFailed == [message |-> "Scene analysis failed. Connection unstable."]

\* One percent of the viewport, in model units.
Unit == 100 * 1000

Pt(px, py) == [x |-> px * Unit, y |-> py * Unit]

\* Answers of the scene-analysis collaborator (analysisResult.objects).
DoorObject == [name |-> "door",
               polylines |-> << <<Pt(40, 40), Pt(40, 60)>>, <<Pt(60, 40)>> >>]
EdgeObject == [name |-> "edge", polylines |-> << <<Pt(102, 50)>>, << >> >>]
BareObject == [name |-> "bare", polylines |-> << >>]

AnalysisResults == { << >>, <<DoorObject>>, <<BareObject, EdgeObject>> }

\* UpgradeService.spendCredits(amount): true and the balance reduced when
\* the balance covers the amount, false and the balance untouched otherwise.
spendCredits(balance, amount) ==
    IF balance >= amount
    THEN [ok |-> TRUE, credits |-> balance - amount]
    ELSE [ok |-> FALSE, credits |-> balance]

\* UpgradeService.addCredits(amount).
addCredits(balance, amount) == balance + amount

\* setTimeout(callback, delay): the callback is due `delay` ms from now.
setTimeout(pending, kind, delay) == pending \cup {[kind |-> kind, due |-> now + delay]}

\* ScanIgnored without the early return of the first line: the call goes on
\* to spend credits and to capture a second frame.
ScanReentered ==
    /\ isScanningEnvironment
    /\ spendCredits(credits, scanCost).ok
    /\ credits' = spendCredits(credits, scanCost).credits
    /\ scanError' = Null
    /\ errorSetAt' = Undefined
    /\ sceneObjects' = << >>
    /\ scans' = Append(scans, [stage |-> "capture", balance |-> credits])
    /\ scanDone' = Null
    /\ scanPromise' = "pending"
    /\ lastOp' = "scanIgnored"
    /\ UNCHANGED <<isScanningEnvironment, timers, ledger, entityVars, loopVars,
                   probe, now>>

\* scanEnvironment() while a scan is in flight: the first line returns.
ScanIgnored ==
    /\ isScanningEnvironment
    /\ lastOp' = "scanIgnored"
    /\ UNCHANGED <<scanVars, entityVars, loopVars, probe, now>>

\* ScanRejected without its return: the error is set and the scan starts
\* all the same.
ScanRejectedFallsThrough ==
    /\ ~isScanningEnvironment
    /\ ~spendCredits(credits, scanCost).ok
    /\ credits' = spendCredits(credits, scanCost).credits
    /\ scanError' = InsufficientCredits
    /\ errorSetAt' = now
    /\ timers' = setTimeout(timers, "clearError", ErrorClearDelay)
    /\ isScanningEnvironment' = TRUE
    /\ sceneObjects' = << >>
    /\ scans' = Append(scans, [stage |-> "capture", balance |-> credits])
    /\ lastOp' = "scanRejected"
    /\ UNCHANGED <<scanDone, scanPromise, ledger, entityVars, loopVars, probe, now>>

\* scanEnvironment() with spendCredits() refusing.
ScanRejected ==
    /\ ~isScanningEnvironment
    /\ ~spendCredits(credits, scanCost).ok
    /\ credits' = spendCredits(credits, scanCost).credits
    /\ scanError' = InsufficientCredits
    /\ errorSetAt' = now
    /\ timers' = setTimeout(timers, "clearError", ErrorClearDelay)
    /\ lastOp' = "scanRejected"
    /\ UNCHANGED <<isScanningEnvironment, sceneObjects, scans, scanDone,
                   scanPromise, ledger, entityVars, loopVars, probe, now>>

\* ScanAccepted without sceneObjects.set([]): the results of the earlier
\* scan stay while the new one runs.
ScanAcceptedKeepingScene ==
    /\ ~isScanningEnvironment
    /\ spendCredits(credits, scanCost).ok
    /\ credits' = spendCredits(credits, scanCost).credits
    /\ isScanningEnvironment' = TRUE
    /\ scanError' = Null
    /\ errorSetAt' = Undefined
    /\ scans' = Append(scans, [stage |-> "capture", balance |-> credits])
    /\ scanDone' = Null
    /\ scanPromise' = "pending"
    /\ lastOp' = "scanAccepted"
    /\ UNCHANGED <<sceneObjects, timers, ledger, entityVars, loopVars, probe, now>>

\* scanEnvironment() up to its first await: CameraPreview.capture() is called.
ScanAccepted ==
    /\ ~isScanningEnvironment
    /\ spendCredits(credits, scanCost).ok
    /\ credits' = spendCredits(credits, scanCost).credits
    /\ isScanningEnvironment' = TRUE
    /\ scanError' = Null
    /\ errorSetAt' = Undefined
    /\ sceneObjects' = << >>
    /\ scans' = Append(scans, [stage |-> "capture", balance |-> credits])
    /\ scanDone' = Null
    /\ scanPromise' = "pending"
    /\ lastOp' = "scanAccepted"
    /\ UNCHANGED <<timers, ledger, entityVars, loopVars, probe, now>>

scanEnvironment == ScanIgnored \/ ScanRejected \/ ScanAccepted

RemoveAt(s, i) == SubSeq(s, 1, i - 1) \o SubSeq(s, i + 1, Len(s))

\* capture() resolves: analyzeScene() is called with the frame.
CaptureResolved(i) ==
    /\ scans[i].stage = "capture"
    /\ scans' = [scans EXCEPT ![i].stage = "analyze"]
    /\ lastOp' = "captureResolved"
    /\ UNCHANGED <<isScanningEnvironment, scanError, errorSetAt, sceneObjects,
                   credits, timers, scanDone, scanPromise, ledger, entityVars,
                   loopVars, probe, now>>

\* AnalysisResolved with the refund of the catch block made on success too.
AnalysisResolvedRefunding(i, objects) ==
    /\ scans[i].stage = "analyze"
    /\ sceneObjects' = objects
    /\ credits' = addCredits(credits, scanCost)
    /\ timers' = setTimeout(timers, "clearScene", SceneClearDelay)
    /\ isScanningEnvironment' = FALSE
    /\ scans' = RemoveAt(scans, i)
    /\ scanDone' = [at |-> now, objects |-> objects]
    /\ scanPromise' = "fulfilled"
    /\ lastOp' = "analysisResolved"
    /\ ledger' = [ledger EXCEPT !.succeeded = @ + 1]
    /\ UNCHANGED <<scanError, errorSetAt, entityVars, loopVars, probe, now>>

\* analyzeScene() resolves: the try block's tail, then finally.
AnalysisResolved(i, objects) ==
    /\ scans[i].stage = "analyze"
    /\ sceneObjects' = objects
    /\ timers' = setTimeout(timers, "clearScene", SceneClearDelay)
    /\ isScanningEnvironment' = FALSE
    /\ scans' = RemoveAt(scans, i)
    /\ scanDone' = [at |-> now, objects |-> objects]
    /\ scanPromise' = "fulfilled"
    /\ lastOp' = "analysisResolved"
    /\ ledger' = [ledger EXCEPT !.succeeded = @ + 1]
    /\ UNCHANGED <<scanError, errorSetAt, credits, entityVars, loopVars, probe, now>>

\* ScanFailed without the finally block: the flag is never cleared.
ScanFailedFlagStays(i) ==
    /\ scanError' = SceneAnalysisFailed
    /\ errorSetAt' = now
    /\ credits' = addCredits(credits, scanCost)
    /\ timers' = setTimeout(timers, "clearError", ErrorClearDelay)
    /\ scans' = RemoveAt(scans, i)
    /\ scanPromise' = "fulfilled"
    /\ UNCHANGED <<isScanningEnvironment, sceneObjects, scanDone, ledger, entityVars,
                   loopVars, probe, now>>

\* ScanFailed without the setTimeout of the catch block: nothing clears
\* the error.
ScanFailedErrorStays(i) ==
    /\ scanError' = SceneAnalysisFailed
    /\ errorSetAt' = now
    /\ credits' = addCredits(credits, scanCost)
    /\ isScanningEnvironment' = FALSE
    /\ scans' = RemoveAt(scans, i)
    /\ scanPromise' = "fulfilled"
    /\ UNCHANGED <<timers, sceneObjects, scanDone, ledger, entityVars, loopVars, probe, now>>

\* ScanFailed with the refund left out of the catch block.
ScanFailedNoRefund(i) ==
    /\ scanError' = SceneAnalysisFailed
    /\ errorSetAt' = now
    /\ timers' = setTimeout(timers, "clearError", ErrorClearDelay)
    /\ isScanningEnvironment' = FALSE
    /\ scans' = RemoveAt(scans, i)
    /\ scanPromise' = "fulfilled"
    /\ UNCHANGED <<credits, sceneObjects, scanDone, ledger, entityVars, loopVars, probe, now>>

\* The catch block, then finally: the promise of scanEnvironment() fulfils.
ScanFailed(i) ==
    /\ scanError' = SceneAnalysisFailed
    /\ errorSetAt' = now
    /\ credits' = addCredits(credits, scanCost)
    /\ timers' = setTimeout(timers, "clearError", ErrorClearDelay)
    /\ isScanningEnvironment' = FALSE
    /\ scans' = RemoveAt(scans, i)
    /\ scanPromise' = "fulfilled"
    /\ UNCHANGED <<sceneObjects, scanDone, ledger, entityVars, loopVars, probe, now>>

\* capture() rejects.
CaptureRejected(i) ==
    /\ scans[i].stage = "capture"
    /\ ScanFailed(i)
    /\ lastOp' = "captureRejected"

\* analyzeScene() rejects.
AnalysisRejected(i) ==
    /\ scans[i].stage = "analyze"
    /\ ScanFailed(i)
    /\ lastOp' = "analysisRejected"

\* A setTimeout callback runs once its delay has elapsed.
TimerFired(t) ==
    /\ t.due <= now
    /\ timers' = timers \ {t}
    /\ IF t.kind = "clearError"
       THEN scanError' = Null /\ errorSetAt' = Undefined /\ UNCHANGED sceneObjects
       ELSE sceneObjects' = << >> /\ UNCHANGED <<scanError, errorSetAt>>
    /\ lastOp' = "timerFired"
    /\ UNCHANGED <<isScanningEnvironment, credits, scans, scanDone,
                   scanPromise, ledger, entityVars, loopVars, probe, now>>

MinDue == CHOOSE d \in {t.due : t \in timers} : \A t \in timers : d <= t.due

\* Time passes; a due callback runs before the clock moves past it.
Tick(d) ==
    /\ \A t \in timers : t.due > now
    /\ now + d <= MaxTime
    /\ now' = IF timers # {} /\ MinDue < now + d THEN MinDue ELSE now + d
    /\ lastOp' = "tick"
    /\ UNCHANGED <<scanVars, entityVars, loopVars, probe>>

(***************************************************************************)
(* Fixed-point arithmetic.                                                 *)
(***************************************************************************)
Abs(a) == IF a < 0 THEN -a ELSE a

Sign(a) == IF a < 0 THEN -1 ELSE IF a > 0 THEN 1 ELSE 0

Max(a, b) == IF a >= b THEN a ELSE b

Min(a, b) == IF a <= b THEN a ELSE b

\* a / b on doubles, rounded toward zero to a whole unit.
TruncDiv(a, b) == Sign(a) * Sign(b) * (Abs(a) \div Abs(b))

RECURSIVE SqrtSearch(_, _, _)
SqrtSearch(n, lo, hi) ==
    IF lo >= hi THEN lo
    ELSE LET mid == (lo + hi) \div 2
         IN IF mid * mid >= n THEN SqrtSearch(n, lo, mid)
            ELSE SqrtSearch(n, mid + 1, hi)

\* Math.sqrt, rounded up to a whole unit: the least s with s * s >= n.  A
\* positive argument never yields 0 and |v| / Sqrt(v.v) never exceeds 1.
Sqrt(n) == SqrtSearch(n, 0, 46340)

\* Math.sqrt(dx * dx + dy * dy) for offsets of any size: the squares are
\* taken on offsets scaled down to four or five significant digits, as a
\* 32-bit product allows.
HypotScale(m) ==
    IF m <= 30000 THEN 1
    ELSE IF m <= 300000 THEN 10
    ELSE IF m <= 3000000 THEN 100
    ELSE 1000

Hypot(dx, dy) ==
    LET c == HypotScale(Max(Abs(dx), Abs(dy)))
        sx == TruncDiv(dx, c)
        sy == TruncDiv(dy, c)
    IN c * Sqrt(sx * sx + sy * sy)

\* Math.max(lo, Math.min(hi, v)).
Clamp(lo, hi, v) == Max(lo, Min(hi, v))

(***************************************************************************)
(* Math.random(): the draws of one handler run are read off a stream rs,   *)
(* in the order the code makes them; k counts the draws made so far.       *)
(***************************************************************************)
RandDen == 10 * 100

Draw(rs, k) == rs[(k % Len(rs)) + 1]

\* Math.random() < num / den.
RandBelow(r, num, den) == r * den < num * RandDen

\* Math.random() * range.
RandTimes(r, range) ==
    (range \div RandDen) * r + ((range % RandDen) * r) \div RandDen

\* (Math.random() - 0.5) * range.
RandCentered(r, range) == TruncDiv((2 * r - RandDen) * range, 2 * RandDen)

\* Math.floor(Math.random() * length), as a 1-based index.
RandIndex(r, length) == (r * length) \div RandDen + 1

(***************************************************************************)
(* getNewSpawnPosition().                                                  *)
(***************************************************************************)
\* centralExclusionZone: xMin = yMin = 35, xMax = yMax = 65.
ZoneMin == 35 * Unit
ZoneMax == 65 * Unit
SpawnMin == 5 * Unit
SpawnMax == 95 * Unit

\* PeripheralSpawn drawing the second coordinate from the whole screen.
PeripheralSpawnAnywhere(rs, k) ==
    LET onTopBottom == RandBelow(Draw(rs, k), 1, 2)
        along == RandTimes(Draw(rs, k + 1), 100 * Unit)
        across == RandTimes(Draw(rs, k + 3), 100 * Unit)
        px == IF onTopBottom THEN along ELSE across
        py == IF onTopBottom THEN across ELSE along
    IN [x |-> Clamp(SpawnMin, SpawnMax, px),
        y |-> Clamp(SpawnMin, SpawnMax, py),
        k |-> k + 4,
        near |-> FALSE]

\* Lines 158-179: the peripheral fallback.  The result says where the
\* position is (x, y), how many draws have been made (k) and whether it
\* was taken near a scene point (near).
PeripheralSpawn(rs, k) ==
    LET onTopBottom == RandBelow(Draw(rs, k), 1, 2)
        along == RandTimes(Draw(rs, k + 1), 100 * Unit)
        nearSide == RandBelow(Draw(rs, k + 2), 1, 2)
        across == IF nearSide
                  THEN RandTimes(Draw(rs, k + 3), ZoneMin)
                  ELSE ZoneMax + RandTimes(Draw(rs, k + 3), 100 * Unit - ZoneMax)
        px == IF onTopBottom THEN along ELSE across
        py == IF onTopBottom THEN across ELSE along
    IN [x |-> Clamp(SpawnMin, SpawnMax, px),
        y |-> Clamp(SpawnMin, SpawnMax, py),
        k |-> k + 4,
        near |-> FALSE]

\* getNewSpawnPosition without the clamp of lines 150-151.
getNewSpawnPositionUnclamped(activeSceneObjects, rs, k) ==
    LET hasObjects == Len(activeSceneObjects) > 0
        k1 == IF hasObjects THEN k + 1 ELSE k
        spawnBehindObject == hasObjects /\ RandBelow(Draw(rs, k), 7, 10)
        k2 == IF spawnBehindObject THEN k1 + 1 ELSE k1
        randomObject ==
            activeSceneObjects[RandIndex(Draw(rs, k1), Len(activeSceneObjects))]
        hasPolyline == spawnBehindObject /\ Len(randomObject.polylines) > 0
        k3 == IF hasPolyline THEN k2 + 1 ELSE k2
        randomPolyline ==
            randomObject.polylines[RandIndex(Draw(rs, k2), Len(randomObject.polylines))]
        hasPoint == hasPolyline /\ Len(randomPolyline) > 0
        randomPoint == randomPolyline[RandIndex(Draw(rs, k3), Len(randomPolyline))]
        offsetX == RandCentered(Draw(rs, k3 + 1), 8 * Unit)
        offsetY == RandCentered(Draw(rs, k3 + 2), 8 * Unit)
    IN IF hasPoint
       THEN [x |-> randomPoint.x + offsetX,
             y |-> randomPoint.y + offsetY,
             k |-> k3 + 3,
             near |-> TRUE]
       ELSE PeripheralSpawn(rs, k3)

\* Lines 127-180.
getNewSpawnPosition(activeSceneObjects, rs, k) ==
    LET hasObjects == Len(activeSceneObjects) > 0
        k1 == IF hasObjects THEN k + 1 ELSE k
        spawnBehindObject == hasObjects /\ RandBelow(Draw(rs, k), 7, 10)
        k2 == IF spawnBehindObject THEN k1 + 1 ELSE k1
        randomObject ==
            activeSceneObjects[RandIndex(Draw(rs, k1), Len(activeSceneObjects))]
        hasPolyline == spawnBehindObject /\ Len(randomObject.polylines) > 0
        k3 == IF hasPolyline THEN k2 + 1 ELSE k2
        randomPolyline ==
            randomObject.polylines[RandIndex(Draw(rs, k2), Len(randomObject.polylines))]
        hasPoint == hasPolyline /\ Len(randomPolyline) > 0
        randomPoint == randomPolyline[RandIndex(Draw(rs, k3), Len(randomPolyline))]
        offsetX == RandCentered(Draw(rs, k3 + 1), 8 * Unit)
        offsetY == RandCentered(Draw(rs, k3 + 2), 8 * Unit)
    IN IF hasPoint
       THEN [x |-> Clamp(SpawnMin, SpawnMax, randomPoint.x + offsetX),
             y |-> Clamp(SpawnMin, SpawnMax, randomPoint.y + offsetY),
             k |-> k3 + 3,
             near |-> TRUE]
       ELSE PeripheralSpawn(rs, k3)

(***************************************************************************)
(* Entities.  A DetectedEntity is a record of the logical fields; an       *)
(* AREntity adds the physics fields, of which interactionTime and          *)
(* isInteracting are optional.                                             *)
(***************************************************************************)
LogicalFields == {"id", "name", "type", "backstory", "instability", "contained",
                  "glyphB64", "timestamp", "emfReading"}

PhysicsFields == {"x", "y", "vx", "vy", "ax", "ay", "interactionTime",
                  "isInteracting"}

\* Object.assign({}, a, b), and { ...a, ...b }: the fields of b win.
Assign(a, b) ==
    [f \in DOMAIN a \cup DOMAIN b |-> IF f \in DOMAIN b THEN b[f] ELSE a[f]]

Ids(list) == {list[i].id : i \in 1 .. Len(list)}

DistinctIds(list) ==
    \A i, j \in 1 .. Len(list) : list[i].id = list[j].id => i = j

\* new Map(oldArEntities.map(e => [e.id, e])).get(id): the index of the last
\* entity with that id, 0 when there is none.
MapGet(oldArEntities, id) ==
    LET hits == {j \in 1 .. Len(oldArEntities) : oldArEntities[j].id = id}
    IN IF hits = {} THEN 0 ELSE CHOOSE j \in hits : \A h \in hits : h <= j

\* (Math.random() - 0.5) * 0.05
InitialVelocityRange == (5 * Unit) \div 100

\* Lines 56-72: currentDets.map(...), from the i-th detection on.
RECURSIVE ReconcileFrom(_, _, _, _, _, _)
ReconcileFrom(currentDets, i, oldArEntities, activeSceneObjects, rs, k) ==
    IF i > Len(currentDets) THEN << >>
    ELSE LET detection == currentDets[i]
             existingArEntity == MapGet(oldArEntities, detection.id)
             pos == getNewSpawnPosition(activeSceneObjects, rs, k)
             spawned ==
                 Assign(detection,
                        [x |-> pos.x,
                         y |-> pos.y,
                         vx |-> RandCentered(Draw(rs, pos.k), InitialVelocityRange),
                         vy |-> RandCentered(Draw(rs, pos.k + 1), InitialVelocityRange),
                         ax |-> 0,
                         ay |-> 0])
         IN IF existingArEntity # 0
            THEN <<Assign(oldArEntities[existingArEntity], detection)>>
                 \o ReconcileFrom(currentDets, i + 1, oldArEntities,
                                  activeSceneObjects, rs, k)
            ELSE <<spawned>>
                 \o ReconcileFrom(currentDets, i + 1, oldArEntities,
                                  activeSceneObjects, rs, pos.k + 2)

\* Reconcile keeping, at the end of the list, the entities that upstream
\* no longer reports.
ReconcileKeepingAbsent(currentDets, oldArEntities, activeSceneObjects, rs) ==
    ReconcileFrom(currentDets, 1, oldArEntities, activeSceneObjects, rs, 0)
    \o SelectSeq(oldArEntities, LAMBDA e : e.id \notin Ids(currentDets))

\* Reconcile with the arguments of Object.assign swapped for a known
\* entity: the fields of the existing entity win over the detection's.
ReconcileOldFieldsWin(currentDets, oldArEntities, activeSceneObjects, rs) ==
    LET merged == ReconcileFrom(currentDets, 1, oldArEntities,
                                activeSceneObjects, rs, 0)
    IN [i \in 1 .. Len(merged) |->
           IF MapGet(oldArEntities, merged[i].id) # 0
           THEN Assign(merged[i], oldArEntities[MapGet(oldArEntities, merged[i].id)])
           ELSE merged[i]]

\* The effect of the constructor: arEntities.update(old => currentDets.map(...)).
Reconcile(currentDets, oldArEntities, activeSceneObjects, rs) ==
    ReconcileFrom(currentDets, 1, oldArEntities, activeSceneObjects, rs, 0)

(***************************************************************************)
(* updateAREntities(): one physics and targeting frame.                    *)
(***************************************************************************)
gravityTilt == 5
downwardDrift == 2
frictionPercent == 97
containedDampingTenths == 9
emfAgitation == 15
maxSpeed == (2 * Unit) \div 10
sceneRepulsionPerUnit == 10000
sceneRepulsionRadius == 12 * Unit
InteractionCooldown == 500
TargetingThreshold == 15 * Unit
AnchorX == 50 * Unit
AnchorY == 45 * Unit
OffscreenLow == -5 * Unit
OffscreenHigh == 105 * Unit

\* Every point of every polyline of every scene object, in loop order.
RECURSIVE Concat(_)
Concat(seqs) == IF seqs = << >> THEN << >> ELSE Head(seqs) \o Concat(Tail(seqs))

ScenePoints(activeSceneObjects) ==
    Concat([o \in 1 .. Len(activeSceneObjects) |->
               Concat(activeSceneObjects[o].polylines)])

OptionalField(e, f) == IF f \in DOMAIN e THEN e[f] ELSE Undefined

\* RepelAt without the cooldown test: every point within the radius
\* plays the cue.
RepelAtNoCooldown(acc, dx, dy, distance, nowMs) ==
    IF distance < sceneRepulsionRadius
    THEN LET forceMagnitude ==
                 TruncDiv(sceneRepulsionRadius - distance, sceneRepulsionPerUnit)
         IN [ax |-> IF distance > 0
                    THEN acc.ax + TruncDiv(dx * forceMagnitude, distance)
                    ELSE acc.ax,
             ay |-> IF distance > 0
                    THEN acc.ay + TruncDiv(dy * forceMagnitude, distance)
                    ELSE acc.ay,
             hasInteractedThisFrame |-> TRUE,
             interactionTime |-> nowMs,
             cues |-> acc.cues + 1]
    ELSE acc

\* Lines 250-267: what a scene point at offset (dx, dy) and at the given
\* distance does.  acc = [ax, ay, hasInteractedThisFrame, interactionTime,
\* cues], cues counting the playInteractionHum() calls.
RepelAt(acc, dx, dy, distance, nowMs) ==
    IF distance < sceneRepulsionRadius
    THEN LET forceMagnitude ==
                 TruncDiv(sceneRepulsionRadius - distance, sceneRepulsionPerUnit)
             playInteractionHum ==
                 \/ acc.interactionTime = Undefined
                 \/ acc.interactionTime = 0
                 \/ nowMs - acc.interactionTime > InteractionCooldown
         IN [ax |-> IF distance > 0
                    THEN acc.ax + TruncDiv(dx * forceMagnitude, distance)
                    ELSE acc.ax,
             ay |-> IF distance > 0
                    THEN acc.ay + TruncDiv(dy * forceMagnitude, distance)
                    ELSE acc.ay,
             hasInteractedThisFrame |-> TRUE,
             interactionTime |->
                 IF playInteractionHum THEN nowMs ELSE acc.interactionTime,
             cues |-> IF playInteractionHum THEN acc.cues + 1 ELSE acc.cues]
    ELSE acc

\* RepelPoint with the offset taken from the entity to the point: the force
\* pulls the entity in.
AttractPoint(acc, point, x, y, nowMs) ==
    RepelAt(acc, point.x - x, point.y - y, Hypot(x - point.x, y - point.y), nowMs)

\* Lines 246-248: the offset and the distance of the entity from a point.
RepelPoint(acc, point, x, y, nowMs) ==
    RepelAt(acc, x - point.x, y - point.y, Hypot(x - point.x, y - point.y), nowMs)

\* Lines 243-270: the three nested loops, from the j-th point on.
RECURSIVE Repel(_, _, _, _, _, _)
Repel(points, j, x, y, nowMs, acc) ==
    IF j > Len(points) THEN acc
    ELSE Repel(points, j + 1, x, y, nowMs, RepelPoint(acc, points[j], x, y, nowMs))

\* Damped without the reset of the acceleration.
DampedKeepingAcceleration(e, vx, vy) ==
    Assign(e, [x |-> e.x + vx, y |-> e.y + vy, vx |-> vx, vy |-> vy,
               isInteracting |-> FALSE])

\* Lines 214-221: the contained branch.
Damped(e, vx, vy) ==
    Assign(e, [x |-> e.x + vx, y |-> e.y + vy, vx |-> vx, vy |-> vy,
               ax |-> 0, ay |-> 0, isInteracting |-> FALSE])

\* UpdateContained with the friction of the free entities for damping.
UpdateContainedWithFriction(e) ==
    Damped(e, TruncDiv(e.vx * frictionPercent, 100),
              TruncDiv(e.vy * frictionPercent, 100))

\* Lines 216-217: the damping of a contained entity.
UpdateContained(e) ==
    Damped(e, TruncDiv(e.vx * containedDampingTenths, 10),
              TruncDiv(e.vy * containedDampingTenths, 10))

\* Lines 223-271: the forces on a non-contained entity.  frame = [tiltX,
\* tiltY, emfReading, points, now, rs], tiltX and tiltY being gravityX and
\* gravityY times gravityTilt; k counts the draws made so far.
Forces(e, frame, k) ==
    Repel(frame.points, 1, e.x, e.y, frame.now,
          [ax |-> frame.tiltX
                  + RandCentered(Draw(frame.rs, k), frame.emfReading * emfAgitation),
           ay |-> frame.tiltY + downwardDrift
                  + RandCentered(Draw(frame.rs, k + 1),
                                 frame.emfReading * emfAgitation),
           hasInteractedThisFrame |-> FALSE,
           interactionTime |-> OptionalField(e, "interactionTime"),
           cues |-> 0])

\* ClampTo with the clamp left out.
ClampOff(vx, vy, speed) == [vx |-> vx, vy |-> vy]

\* Lines 282-286: the speed clamp.
ClampTo(vx, vy, speed) ==
    IF speed > maxSpeed
    THEN [vx |-> TruncDiv(vx * maxSpeed, speed),
          vy |-> TruncDiv(vy * maxSpeed, speed)]
    ELSE [vx |-> vx, vy |-> vy]

ClampSpeed(vx, vy) == ClampTo(vx, vy, Sqrt(vx * vx + vy * vy))

\* Lines 275-286: acceleration, friction and the clamp.
Velocity(e, ax, ay) ==
    ClampSpeed(TruncDiv((e.vx + ax) * frictionPercent, 100),
               TruncDiv((e.vy + ay) * frictionPercent, 100))

\* Lines 293-298: the respawn above the screen.
Respawn(rs, k) ==
    [x |-> RandTimes(Draw(rs, k), 80 * Unit) + 10 * Unit,
     y |-> OffscreenLow,
     vx |-> RandCentered(Draw(rs, k + 1), (2 * Unit) \div 100),
     vy |-> RandTimes(Draw(rs, k + 2), (5 * Unit) \div 100)]

IsOffscreen(x, y) == y > OffscreenHigh \/ x < OffscreenLow \/ x > OffscreenHigh

\* Moved without the off-screen test: the entity drifts on.
MovedWithoutRespawn(e, rep, v, rs, k) ==
    [entity |-> Assign(e,
                  [x |-> e.x + v.vx, y |-> e.y + v.vy,
                   vx |-> v.vx, vy |-> v.vy,
                   ax |-> rep.ax, ay |-> rep.ay,
                   interactionTime |-> rep.interactionTime,
                   isInteracting |-> rep.hasInteractedThisFrame]),
     k |-> k + 2,
     cues |-> rep.cues]

\* Lines 288-300: the position, the off-screen behaviour and updatedEntity.
Moved(e, rep, v, rs, k) ==
    IF IsOffscreen(e.x + v.vx, e.y + v.vy)
    THEN [entity |-> Assign(e, Assign(Respawn(rs, k + 2),
                       [ax |-> rep.ax, ay |-> rep.ay,
                        interactionTime |-> rep.interactionTime,
                        isInteracting |-> rep.hasInteractedThisFrame])),
          k |-> k + 5,
          cues |-> rep.cues]
    ELSE [entity |-> Assign(e,
                       [x |-> e.x + v.vx, y |-> e.y + v.vy,
                        vx |-> v.vx, vy |-> v.vy,
                        ax |-> rep.ax, ay |-> rep.ay,
                        interactionTime |-> rep.interactionTime,
                        isInteracting |-> rep.hasInteractedThisFrame]),
          k |-> k + 2,
          cues |-> rep.cues]

Integrate(e, rep, rs, k) == Moved(e, rep, Velocity(e, rep.ax, rep.ay), rs, k)

\* Lines 223-300: a non-contained entity.
UpdateFree(e, frame, k) == Integrate(e, Forces(e, frame, k), frame.rs, k)

\* Prepend putting the entity behind the rest.
PrependBehind(entity, cue, rest) ==
    [entities |-> rest.entities \o <<entity>>,
     closestEntity |-> rest.closestEntity,
     cues |-> rest.cues \o <<cue>>]

\* The result of entities.map(...) from one entity on: the entity and the
\* cue count of the first, followed by those of the rest.
Prepend(entity, cue, rest) ==
    [entities |-> <<entity>> \o rest.entities,
     closestEntity |-> rest.closestEntity,
     cues |-> <<cue>> \o rest.cues]

RECURSIVE UpdateFrom(_, _, _, _, _, _)

\* Lines 302-309: the targeting of an updated entity, then the rest.
Target(entities, i, frame, minDistance, closestEntity, free, distanceToCenter) ==
    Prepend(free.entity, free.cues,
            IF distanceToCenter < minDistance
            THEN UpdateFrom(entities, i + 1, frame, free.k, distanceToCenter,
                            free.entity)
            ELSE UpdateFrom(entities, i + 1, frame, free.k, minDistance,
                            closestEntity))

Targeted(entities, i, frame, minDistance, closestEntity, free) ==
    Target(entities, i, frame, minDistance, closestEntity, free,
           Hypot(free.entity.x - AnchorX, free.entity.y - AnchorY))

\* Lines 211-310: entities.map(...), from the i-th entity on, with the
\* running minimum of the targeting.  Yields [entities, closestEntity, cues].
UpdateFrom(entities, i, frame, k, minDistance, closestEntity) ==
    IF i > Len(entities)
    THEN [entities |-> << >>, closestEntity |-> closestEntity, cues |-> << >>]
    ELSE IF entities[i].contained
    THEN Prepend(UpdateContained(entities[i]), 0,
                 UpdateFrom(entities, i + 1, frame, k, minDistance, closestEntity))
    ELSE Targeted(entities, i, frame, minDistance, closestEntity,
                  UpdateFree(entities[i], frame, k))

\* sensorService.orientation(): null, or the tilt angles in degrees.
Orientations == {Null, [beta |-> 135, gamma |-> -45]}

\* deviceState.emfReading().
EmfReadings == {0, 100}

updateAREntities(entities, orientation, emfReading, activeSceneObjects, nowMs, rs) ==
    \* gravityX * gravityTilt and gravityY * gravityTilt
    LET gravityX == IF orientation # Null
                    THEN TruncDiv(orientation.gamma * gravityTilt, 90)
                    ELSE 0
        gravityY == IF orientation # Null
                    THEN TruncDiv(Clamp(-90, 90, orientation.beta) * gravityTilt, 90)
                    ELSE 0
        frame == [tiltX |-> gravityX, tiltY |-> gravityY,
                  emfReading |-> emfReading,
                  points |-> ScenePoints(activeSceneObjects),
                  now |-> nowMs, rs |-> rs]
    IN UpdateFrom(entities, 1, frame, 0, TargetingThreshold, Null)

(***************************************************************************)
(* The upstream detection feed.                                            *)
(***************************************************************************)
ProfileA ==
    [name |-> "Mara", type |-> "Shade", backstory |-> "cellar",
     instability |-> 60, glyphB64 |-> "g1", timestamp |-> 100,
     emfReading |-> 42]

ProfileB ==
    [name |-> "Orlok", type |-> "Wraith", backstory |-> "attic",
     instability |-> 95, glyphB64 |-> "g2", timestamp |-> 200,
     emfReading |-> 88]

\* A detection as first reported, and as reported once it is contained and
\* its profile has been rewritten.
Free(id) == Assign(ProfileA, [id |-> id, contained |-> FALSE])

Held(id) == Assign(ProfileB, [id |-> id, contained |-> TRUE])

Reports(id) == {Free(id), Held(id)}

\* Upstream lists, with pairwise distinct ids: every list of at most two
\* reports of the ids 1 and 2, and the lists that bring in a third id.
DetectionLists ==
    {<< >>}
    \cup {<<d>> : d \in Reports(1) \cup Reports(2)}
    \cup {<<p[1], p[2]>> : p \in (Reports(1) \X Reports(2)) \cup (Reports(2) \X Reports(1))}
    \cup {<<Free(2), Free(3)>>, <<Held(3), Free(1)>>, <<Free(3)>>}

\* Streams of Math.random() values, read cyclically.
RandomStreams == { <<0, 500, 0, 999, 500, 500>>, <<999, 0>> }

\* The ids the upstream feed uses.
EntityIds == 1 .. 3

\* detections() changes and the effect runs.  An entity that leaves the
\* list takes the memory of its cues with it.
SetDetections(currentDets, rs) ==
    /\ nChanges < MaxChanges
    /\ nChanges' = nChanges + 1
    /\ detections' = currentDets
    /\ arEntities' = Reconcile(currentDets, arEntities, sceneObjects, rs)
    /\ lastCue' = [id \in EntityIds |->
                      IF id \in Ids(arEntities) \cap Ids(currentDets)
                      THEN lastCue[id] ELSE Undefined]
    /\ lastOp' = "reconcile"
    /\ UNCHANGED <<targetedEntity, cues, nFrames, scanVars, loopVars, probe, now>>

\* The times of the last cues after a frame at nowMs that made the given
\* playInteractionHum() calls.
CuesHeard(entities, made, nowMs) ==
    [id \in EntityIds |->
        IF \E i \in 1 .. Len(entities) : entities[i].id = id /\ made[i] > 0
        THEN nowMs ELSE lastCue[id]]

\* Lines 183-187, the body of animate() at time nowMs: one run of
\* updateAREntities(), then requestAnimationFrame(animate), whose id is
\* kept in animationFrameId.  pending is the callback queue the run finds.
animate(pending, nowMs, orientation, emfReading, rs) ==
    /\ nFrames' = nFrames + 1
    /\ now' = nowMs
    /\ LET r == updateAREntities(arEntities, orientation, emfReading,
                                 sceneObjects, nowMs, rs)
       IN /\ arEntities' = r.entities
          /\ targetedEntity' = r.closestEntity
          /\ cues' = r.cues
          /\ lastCue' = CuesHeard(r.entities, r.cues, nowMs)
    /\ rafIds' = rafIds + 1
    /\ animationFrameId' = rafIds + 1
    /\ rafQueue' = pending \cup {rafIds + 1}
    /\ lastOp' = "frame"
    /\ UNCHANGED <<detections, nChanges, scanVars, probe>>

\* The display refreshes d ms later: a pending animate() callback runs.
Frame(d, orientation, emfReading, rs) ==
    /\ \E id \in rafQueue :
          animate(rafQueue \ {id}, now + d, orientation, emfReading, rs)
    /\ UNCHANGED lifecycle

\* Lines 77-79 and 182-189: ngOnInit() starts the loop with a first,
\* synchronous run of animate().
ngOnInit(orientation, emfReading, rs) ==
    /\ lifecycle = "constructed"
    /\ lifecycle' = "initialised"
    /\ animate(rafQueue, now, orientation, emfReading, rs)

\* ngOnDestroy without the cancelAnimationFrame() call.
ngOnDestroyLeaking ==
    /\ lifecycle # "destroyed"
    /\ lifecycle' = "destroyed"
    /\ lastOp' = "destroy"
    /\ UNCHANGED <<animationFrameId, rafQueue, rafIds, entityVars, scanVars,
                   probe, now>>

\* Lines 81-83 and 191-195: ngOnDestroy() cancels the callback whose id
\* animationFrameId holds, if it holds one.
ngOnDestroy ==
    /\ lifecycle # "destroyed"
    /\ lifecycle' = "destroyed"
    /\ rafQueue' = IF animationFrameId # 0
                   THEN rafQueue \ {animationFrameId}
                   ELSE rafQueue
    /\ lastOp' = "destroy"
    /\ UNCHANGED <<animationFrameId, rafIds, entityVars, scanVars, probe, now>>

InitScan ==
    /\ isScanningEnvironment = FALSE
    /\ scanError = Null
    /\ sceneObjects = << >>
    /\ credits \in 0 .. MaxCredits
    /\ scans = << >>
    /\ timers = {}
    /\ now = 1000
    /\ lastOp = "init"
    /\ scanDone = Null
    /\ scanPromise = "none"
    /\ errorSetAt = Undefined
    /\ ledger = [initial |-> credits, succeeded |-> 0]

InitEntities ==
    /\ detections = << >>
    /\ arEntities = << >>
    /\ targetedEntity = Null
    /\ cues = << >>
    /\ nFrames = 0
    /\ nChanges = 0
    /\ lastCue = [id \in EntityIds |-> Undefined]

\* The loop as ngOnInit() leaves it: its first animate() has run, on the
\* empty list, and has requested the next.
InitLoop ==
    /\ lifecycle = "initialised"
    /\ animationFrameId = 1
    /\ rafQueue = {1}
    /\ rafIds = 1

Init == InitEntities /\ InitScan /\ InitLoop /\ probe = Null

NextScan ==
    \/ scanEnvironment
    \/ \E i \in 1 .. Len(scans) : CaptureResolved(i)
    \/ \E i \in 1 .. Len(scans) : \E objects \in AnalysisResults :
           AnalysisResolved(i, objects)
    \/ \E i \in 1 .. Len(scans) : CaptureRejected(i)
    \/ \E i \in 1 .. Len(scans) : AnalysisRejected(i)
    \/ \E t \in timers : TimerFired(t)
    \/ \E d \in TickSteps : Tick(d)

SpecScan == Init /\ [][NextScan]_vars

NextEntities ==
    \/ \E currentDets \in DetectionLists : \E rs \in RandomStreams :
           SetDetections(currentDets, rs)
    \/ /\ nFrames < MaxFrames
       /\ \E orientation \in Orientations : \E emfReading \in EmfReadings :
             \E rs \in RandomStreams : Frame(0, orientation, emfReading, rs)

InitNoCredits == Init /\ credits = 0

Spec == InitNoCredits /\ [][NextEntities]_vars

(***************************************************************************)
(* The physics under way: the component some frames after construction.    *)
(* Every entity is in a state the frames reach: a speed of at most         *)
(* maxSpeed, and zero acceleration where it is contained.                  *)
(***************************************************************************)
Entity(detection, x, y, vx, vy, ax, ay, interactionTime) ==
    Assign(detection,
           [x |-> x, y |-> y, vx |-> vx, vy |-> vy, ax |-> ax, ay |-> ay,
            interactionTime |-> interactionTime, isInteracting |-> FALSE])

\* At the anchor, at full speed.
RunningEntity ==
    Entity(Free(1), AnchorX, AnchorY, (16 * Unit) \div 100, (12 * Unit) \div 100,
           3, -2, Undefined)

\* Contained and drifting to a stop, near the door.
DriftingEntity ==
    Entity(Held(2), 41 * Unit, 41 * Unit, Unit \div 100, -Unit \div 200, 0, 0, 600)

\* About to leave the screen at the bottom.
LeavingEntity ==
    Entity(Free(1), AnchorX, (1049 * Unit) \div 10, 0, (19 * Unit) \div 100,
           0, 2, Undefined)

\* Five percent from a point of the door, its last cue long ago.
NearDoorEntity ==
    Entity(Free(3), 45 * Unit, 40 * Unit, -300, 200, 1, 2, 400)

\* Contained and at rest, ten percent left of the anchor.
RestingEntity ==
    Entity(Held(2), AnchorX - 10 * Unit, AnchorY, 0, 0, 0, 0, Undefined)

\* At rest ten percent right of the anchor, one downward drift above it.
SettlingEntity ==
    Entity(Free(1), AnchorX + 10 * Unit, AnchorY - 1, 0, 0, 0, 0, Undefined)

EntityLists ==
    { << >>, <<RunningEntity>>, <<DriftingEntity, LeavingEntity>>,
      <<NearDoorEntity>>, <<RestingEntity, SettlingEntity>> }

LogicalOf(e) == [f \in LogicalFields |-> e[f]]

\* The times of the last cues as the entities of a list remember them.
CuesHeardBy(entities) ==
    [id \in EntityIds |->
        IF \E i \in 1 .. Len(entities) : entities[i].id = id
        THEN LET i == CHOOSE i \in 1 .. Len(entities) : entities[i].id = id
             IN OptionalField(entities[i], "interactionTime")
        ELSE Undefined]

PhysicsOf(e) == [f \in PhysicsFields \cap DOMAIN e |-> e[f]]

InitPhys ==
    /\ isScanningEnvironment = FALSE
    /\ scanError = Null
    /\ credits = 0
    /\ scans = << >>
    /\ timers = {}
    /\ now = 1000
    /\ lastOp = "init"
    /\ scanDone = Null
    /\ scanPromise = "none"
    /\ errorSetAt = Undefined
    /\ ledger = [initial |-> credits, succeeded |-> 0]
    /\ probe = Null
    /\ InitLoop
    /\ arEntities \in EntityLists
    /\ detections = [i \in 1 .. Len(arEntities) |-> LogicalOf(arEntities[i])]
    /\ sceneObjects \in AnalysisResults
    /\ targetedEntity = Null
    /\ cues = [i \in 1 .. Len(arEntities) |-> 0]
    /\ lastCue = CuesHeardBy(arEntities)
    /\ nFrames = 0
    /\ nChanges = 0

PhysStreams == { <<999>>, <<0, 500>> }

\* Upstream changes under way: an entity of the list is reported contained,
\* is dropped, is joined by another, or the list is replaced.
PhysDetectionLists ==
    { << >>, <<Held(1)>>, <<Held(2), Held(1)>>, <<Free(2), Free(1)>>,
      <<Free(3), Free(2)>> }

NextPhys ==
    \/ \E currentDets \in PhysDetectionLists : \E rs \in PhysStreams :
           SetDetections(currentDets, rs)
    \/ /\ nFrames < MaxFrames
       /\ \E orientation \in Orientations : \E emfReading \in EmfReadings :
             \E rs \in PhysStreams : Frame(0, orientation, emfReading, rs)

SpecPhys == InitPhys /\ [][NextPhys]_vars

(***************************************************************************)
(* The animation loop over time: the component from its construction, and  *)
(* the component some frames into a haunting, a door on screen.            *)
(***************************************************************************)
MaxLoopFrames == 3

\* Milliseconds between two display refreshes (a slow display: the
\* cooldown spans two of them).
FrameGaps == {250, 300}

\* Ten percent from two points of the door, its last cue 210 ms ago.
HauntingEntity ==
    Entity(Free(1), 40 * Unit, 50 * Unit, 0, 0, 0, 0, 790)

LoopEntityLists == { <<NearDoorEntity>>, <<HauntingEntity>> }

LoopStreams == { <<0, 500>> }

LoopDetectionLists ==
    { << >>, <<Free(1)>>, <<Held(1)>>, <<Free(3)>>, <<Free(3), Free(1)>> }

InitConstructed ==
    /\ InitEntities
    /\ InitScan
    /\ credits = 0
    /\ lifecycle = "constructed"
    /\ animationFrameId = 0
    /\ rafQueue = {}
    /\ rafIds = 0
    /\ probe = Null

InitHaunting ==
    /\ InitLoop
    /\ isScanningEnvironment = FALSE
    /\ scanError = Null
    /\ errorSetAt = Undefined
    /\ ledger = [initial |-> 0, succeeded |-> 0]
    /\ credits = 0
    /\ scans = << >>
    /\ timers = {}
    /\ now = 1000
    /\ lastOp = "init"
    /\ scanDone = Null
    /\ scanPromise = "none"
    /\ probe = Null
    /\ sceneObjects = <<DoorObject>>
    /\ arEntities \in LoopEntityLists
    /\ detections = [i \in 1 .. Len(arEntities) |-> LogicalOf(arEntities[i])]
    /\ targetedEntity = Null
    /\ cues = [i \in 1 .. Len(arEntities) |-> 0]
    /\ lastCue = CuesHeardBy(arEntities)
    /\ nFrames = 0
    /\ nChanges = 0

\* The device lies flat and the ambient signal is quiet: the frames of the
\* loop differ in their times only.
NextLoop ==
    \/ \E rs \in LoopStreams : ngOnInit(Null, 0, rs)
    \/ /\ nFrames < MaxLoopFrames
       /\ \E d \in FrameGaps : \E rs \in LoopStreams : Frame(d, Null, 0, rs)
    \/ ngOnDestroy
    \/ /\ lifecycle # "destroyed"
       /\ \E currentDets \in LoopDetectionLists : \E rs \in LoopStreams :
             SetDetections(currentDets, rs)

SpecLoop == (InitConstructed \/ InitHaunting) /\ [][NextLoop]_vars

(***************************************************************************)
(* getNewSpawnPosition() and updateAREntities() on their own: a spawn in a *)
(* given scene with given draws, and a frame on one entity at rest at a    *)
(* given place, the device flat and the ambient signal quiet.              *)
(***************************************************************************)
\* A door whose frame passes through the anchor's neighbourhood.
NearEdgeObject == [name |-> "sill", polylines |-> << <<Pt(2, 97), Pt(50, 36)>> >>]

SpawnScenes ==
    { << >>, <<DoorObject>>, <<BareObject, EdgeObject>>, <<EdgeObject, NearEdgeObject>> }

\* The draws of one spawn: the 0.7 test or the choice of the band, then the
\* indices or the coordinates, then the offsets.
SpawnStreams ==
    {<<a, b, c, d, e, 500>> :
        a \in {0, 699, 700}, b \in {0, 500}, c \in {0, 999},
        d \in {0, 500, 999}, e \in {0, 999}}

\* Where the probed entity rests, in percent.
ProbePlaces ==
    { <<40, 40>>, <<43, 44>>, <<45, 40>>, <<40, 50>>, <<40, 28>>, <<40, 27>>,
      <<52, 40>>, <<50, 50>>, <<60, 52>>, <<72, 40>>, <<73, 40>>, <<20, 80>> }

ProbeScenes == { << >>, <<DoorObject>>, <<BareObject, EdgeObject>> }

ProbedEntity(place) ==
    Entity(Free(1), place[1] * Unit, place[2] * Unit, 0, 0, 0, 0, Undefined)

ProbeInputs ==
    {[fn |-> "getNewSpawnPosition", activeSceneObjects |-> scene, rs |-> rs,
      done |-> FALSE] : scene \in SpawnScenes, rs \in SpawnStreams}
    \cup
    {[fn |-> "updateAREntities", entity |-> ProbedEntity(place),
      activeSceneObjects |-> scene, rs |-> <<500>>, done |-> FALSE] :
        place \in ProbePlaces, scene \in ProbeScenes}

InitPure ==
    /\ InitEntities
    /\ InitScan
    /\ InitLoop
    /\ credits = 0
    /\ probe \in ProbeInputs

\* getNewSpawnPosition() with the scene and the draws of the probe.
ProbeSpawn ==
    /\ probe.fn = "getNewSpawnPosition"
    /\ ~probe.done
    /\ probe' = Assign(probe,
                   [done |-> TRUE,
                    result |-> getNewSpawnPosition(probe.activeSceneObjects,
                                                   probe.rs, 0)])
    /\ lastOp' = "spawnProbed"
    /\ UNCHANGED <<entityVars, scanVars, loopVars, now>>

\* updateAREntities() on the entity and in the scene of the probe.
ProbeFrame ==
    /\ probe.fn = "updateAREntities"
    /\ ~probe.done
    /\ probe' = Assign(probe,
                   [done |-> TRUE,
                    result |-> updateAREntities(<<probe.entity>>, Null, 0,
                                                probe.activeSceneObjects,
                                                now, probe.rs)])
    /\ lastOp' = "frameProbed"
    /\ UNCHANGED <<entityVars, scanVars, loopVars, now>>

NextPure == ProbeSpawn \/ ProbeFrame

SpecPure == InitPure /\ [][NextPure]_vars

(***************************************************************************)
(* Claims about the animation loop, checked under SpecLoop.                *)
(***************************************************************************)
\* C11: no frame plays more than one cue for an entity, however many scene
\* points are within the repulsion radius, and a frame plays a cue for an
\* entity only when more than 500 ms have passed since the last cue played
\* for it while it has been in the list.
C11_CuesApart ==
    [][ lastOp' = "frame"
        => \A i \in 1 .. Len(arEntities') :
              /\ cues'[i] <= 1
              /\ (cues'[i] = 1 /\ lastCue[arEntities'[i].id] # Undefined)
                 => now' - lastCue[arEntities'[i].id] > 500 ]_vars

\* A frame has found an entity within the radius of two points less than
\* 500 ms after its last cue, which an earlier frame played.
C11_Witness ==
    /\ lastOp = "frame"
    /\ nFrames >= 2
    /\ \E i \in 1 .. Len(arEntities) :
          /\ arEntities[i].isInteracting
          /\ cues[i] = 0
          /\ lastCue[arEntities[i].id] > 1000
          /\ now - lastCue[arEntities[i].id] <= 500
          /\ Hypot(arEntities[i].x - 40 * Unit, arEntities[i].y - 40 * Unit)
                < sceneRepulsionRadius
          /\ Hypot(arEntities[i].x - 40 * Unit, arEntities[i].y - 60 * Unit)
                < sceneRepulsionRadius

\* C20: at most one animate() callback is pending at any time, exactly one
\* from ngOnInit() to ngOnDestroy() (so a display refresh runs one physics
\* step); ngOnDestroy() leaves none pending, and no physics step runs after
\* it.
C20_OneLoopUntilDestroyed ==
    /\ [](/\ Cardinality(rafQueue) <= 1
          /\ lifecycle = "initialised" => rafQueue = {animationFrameId}
          /\ lifecycle = "destroyed" => rafQueue = {})
    /\ [][ /\ lastOp' = "frame" => nFrames' = nFrames + 1
           /\ lifecycle = "destroyed"
              => nFrames' = nFrames /\ arEntities' = arEntities ]_vars

\* The component destroyed with its loop under way.
C20_Witness ==
    /\ lifecycle = "destroyed"
    /\ nFrames >= 2
    /\ animationFrameId = rafIds
    /\ rafIds >= 2
    /\ rafQueue = {}

(***************************************************************************)
(* Claims about the reconciliation, checked under Spec.                    *)
(***************************************************************************)
IdsInOrder(list) == [i \in 1 .. Len(list) |-> list[i].id]

\* C1: a reconciliation of any previous simulated list with an upstream
\* list of pairwise distinct ids yields a list as long as the upstream
\* list whose i-th entity has the id of the i-th detection; an id of the
\* previous list that is not upstream is not in the result.
C1_ReconcileFollowsUpstream ==
    [][ lastOp' = "reconcile"
        => /\ Len(arEntities') = Len(detections')
           /\ \A i \in 1 .. Len(detections') :
                 arEntities'[i].id = detections'[i].id
           /\ \A j \in 1 .. Len(arEntities) :
                 arEntities[j].id \notin Ids(detections')
                 => arEntities[j].id \notin Ids(arEntities') ]_vars

\* A second upstream change that keeps id 2, which has been through a
\* frame, and brings in id 3.
C1_Witness ==
    /\ lastOp = "reconcile"
    /\ nChanges = 2
    /\ IdsInOrder(arEntities) = <<2, 3>>
    /\ "isInteracting" \in DOMAIN arEntities[1]
    /\ "isInteracting" \notin DOMAIN arEntities[2]

\* C2: a reconciliation leaves the physics fields of every entity whose id
\* is in the previous simulated list and in the new upstream list as they
\* were, and sets each of its logical fields to the upstream value.
C2_ReconcileKeepsPhysics ==
    [][ lastOp' = "reconcile"
        => \A j \in 1 .. Len(arEntities) : \A i \in 1 .. Len(detections') :
              arEntities[j].id = detections'[i].id
              => /\ PhysicsOf(arEntities'[i]) = PhysicsOf(arEntities[j])
                 /\ LogicalOf(arEntities'[i]) = detections'[i] ]_vars

\* An entity that a frame has moved while it was free (ay is never 0 after
\* such a frame) and that upstream now reports contained.
C2_Witness ==
    /\ lastOp = "reconcile"
    /\ \E i \in 1 .. Len(arEntities) :
          /\ arEntities[i].contained
          /\ arEntities[i].name = ProfileB.name
          /\ arEntities[i].ay # 0

\* C3: in every state the ids of the simulated list are pairwise distinct
\* and are the ids of the upstream list, in its order; a physics frame
\* neither adds, removes, reorders nor re-identifies an entity and changes
\* no logical field.
C3_SimulatedMirrorsUpstream ==
    /\ [](DistinctIds(arEntities) /\ IdsInOrder(arEntities) = IdsInOrder(detections))
    /\ [][ lastOp' = "frame"
           => /\ Len(arEntities') = Len(arEntities)
              /\ \A i \in 1 .. Len(arEntities) :
                    LogicalOf(arEntities'[i]) = LogicalOf(arEntities[i]) ]_vars

C3_Witness ==
    /\ lastOp = "frame"
    /\ nChanges = 2
    /\ Len(arEntities) = 2
    /\ arEntities[1].contained # arEntities[2].contained

DistanceToAnchor(e) == Hypot(e.x - AnchorX, e.y - AnchorY)

\* C6: after a physics frame the targeted entity is, among all entities of
\* the updated list, one whose position is nearest the anchor (50, 45),
\* provided that distance is below 15; it is none when no entity of the
\* list is within 15 of the anchor.
C6_TargetIsNearest ==
    lastOp = "frame"
    => LET within == {i \in 1 .. Len(arEntities) :
                         DistanceToAnchor(arEntities[i]) < TargetingThreshold}
       IN IF within = {}
          THEN targetedEntity = Null
          ELSE \E i \in within :
                  /\ targetedEntity = arEntities[i]
                  /\ \A j \in 1 .. Len(arEntities) :
                        DistanceToAnchor(arEntities[i])
                            <= DistanceToAnchor(arEntities[j])

(***************************************************************************)
(* Claims about the physics frame, checked under SpecPhys.                 *)
(***************************************************************************)
SpeedSquared(e) == e.vx * e.vx + e.vy * e.vy

\* The velocity of entity e after acceleration (ax, ay) and friction,
\* before the clamp.
AfterFriction(e, ax, ay) ==
    [vx |-> TruncDiv((e.vx + ax) * frictionPercent, 100),
     vy |-> TruncDiv((e.vy + ay) * frictionPercent, 100)]

\* Velocity w is velocity v rescaled to maxSpeed: its speed is maxSpeed to
\* within the two units the rounding of the two quotients can take off,
\* and it points where v points.
RescaledToMax(v, w) ==
    /\ SpeedSquared(w) <= maxSpeed * maxSpeed
    /\ Sqrt(SpeedSquared(w)) >= maxSpeed - 2
    /\ Sign(w.vx) \in {0, Sign(v.vx)}
    /\ Sign(w.vy) \in {0, Sign(v.vy)}
    /\ Abs(v.vx * w.vy - v.vy * w.vx) <= Abs(v.vx) + Abs(v.vy)

\* C4: in every state the speed of every non-contained entity is at most
\* maxSpeed (0.2); a frame that leaves a non-contained entity on screen
\* gives it the velocity after friction, rescaled to maxSpeed with its
\* direction kept when its speed exceeds maxSpeed.
C4_SpeedBounded ==
    /\ [](\A i \in 1 .. Len(arEntities) :
             ~arEntities[i].contained
             => SpeedSquared(arEntities[i]) <= maxSpeed * maxSpeed)
    /\ [][ lastOp' = "frame"
           => \A i \in 1 .. Len(arEntities) :
                 LET e == arEntities[i]
                     n == arEntities'[i]
                     v == AfterFriction(e, n.ax, n.ay)
                 IN (~e.contained /\ n.x = e.x + n.vx /\ n.y = e.y + n.vy)
                    => IF SpeedSquared(v) > maxSpeed * maxSpeed
                       THEN RescaledToMax(v, n)
                       ELSE n.vx = v.vx /\ n.vy = v.vy ]_vars

\* A frame has clamped the entity that ran at full speed.
C4_Witness ==
    /\ lastOp = "frame"
    /\ \E i \in 1 .. Len(arEntities) :
          /\ ~arEntities[i].contained
          /\ arEntities[i].ax > 700
          /\ arEntities[i].x # AnchorX
          /\ Sqrt(SpeedSquared(arEntities[i])) >= maxSpeed - 2

\* C5, as claimed: in every state every contained entity has acceleration
\* (0, 0).
C5_ContainedNeverAccelerates ==
    \A i \in 1 .. Len(arEntities) :
        arEntities[i].contained => arEntities[i].ax = 0 /\ arEntities[i].ay = 0

\* C5, amended: every contained entity has acceleration (0, 0) after each
\* physics frame, and so has every entity that no frame has updated yet
\* (one a reconciliation has just added).
C5_ContainedAtRestAfterFrame ==
    /\ lastOp = "frame"
       => \A i \in 1 .. Len(arEntities) :
             arEntities[i].contained
             => arEntities[i].ax = 0 /\ arEntities[i].ay = 0
    /\ \A i \in 1 .. Len(arEntities) :
          "isInteracting" \notin DOMAIN arEntities[i]
          => arEntities[i].ax = 0 /\ arEntities[i].ay = 0

\* A frame has damped an entity that was accelerating when upstream
\* reported it contained.
C5_Witness ==
    /\ lastOp = "frame"
    /\ nChanges >= 1
    /\ \E i \in 1 .. Len(arEntities) :
          /\ arEntities[i].contained
          /\ arEntities[i].id = 1
          /\ arEntities[i].vx > 0

\* Where a frame's integration takes entity e, whose acceleration the
\* frame has set to (ax, ay): by the damped velocity when it is contained,
\* by the velocity after friction and clamp when it is not.
Integrated(e, ax, ay) ==
    IF e.contained
    THEN [x |-> e.x + TruncDiv(e.vx * 9, 10), y |-> e.y + TruncDiv(e.vy * 9, 10)]
    ELSE [x |-> e.x + Velocity(e, ax, ay).vx, y |-> e.y + Velocity(e, ax, ay).vy]

LeftScreen(p) == p.y > 105 * Unit \/ p.x < -5 * Unit \/ p.x > 105 * Unit

\* Entity n is entity e teleported above the screen.
Teleported(e, n) ==
    /\ n.y = -5 * Unit
    /\ n.x >= 10 * Unit /\ n.x <= 90 * Unit
    /\ n.vx >= -Unit \div 100 /\ n.vx <= Unit \div 100
    /\ n.vy >= 0 /\ n.vy <= (5 * Unit) \div 100
    /\ LogicalOf(n) = LogicalOf(e)

\* C12, as claimed: a frame teleports every entity whose position after
\* integration has y > 105, x < -5 or x > 105 to y = -5, x in [10, 90],
\* with vx in [-0.01, 0.01] and vy in [0, 0.05], and keeps its id and its
\* other fields.
C12_EveryEntityWrapsAround ==
    [][ lastOp' = "frame"
        => \A i \in 1 .. Len(arEntities) :
              LeftScreen(Integrated(arEntities[i], arEntities'[i].ax,
                                    arEntities'[i].ay))
              => Teleported(arEntities[i], arEntities'[i]) ]_vars

\* C12, amended: the same of every non-contained entity; a contained
\* entity is left where its damped velocity takes it.
C12_FreeEntityWrapsAround ==
    [][ lastOp' = "frame"
        => \A i \in 1 .. Len(arEntities) :
              LeftScreen(Integrated(arEntities[i], arEntities'[i].ax,
                                    arEntities'[i].ay))
              => IF arEntities[i].contained
                 THEN LeftScreen(arEntities'[i])
                 ELSE Teleported(arEntities[i], arEntities'[i]) ]_vars

\* A frame has teleported the entity that was leaving at the bottom.
C12_Witness ==
    /\ lastOp = "frame"
    /\ \E i \in 1 .. Len(arEntities) :
          /\ ~arEntities[i].contained
          /\ arEntities[i].id = 1
          /\ arEntities[i].y = -5 * Unit
          /\ arEntities[i].x >= 10 * Unit
          /\ arEntities[i].ay # 0

\* C13: every entity a reconciliation newly adds has a position with
\* 5 <= x <= 95 and 5 <= y <= 95, velocity components within
\* [-0.025, 0.025] and acceleration (0, 0), whatever the scene objects are.
C13_SpawnWithinBounds ==
    [][ lastOp' = "reconcile"
        => \A i \in 1 .. Len(arEntities') :
              arEntities'[i].id \notin Ids(arEntities)
              => /\ arEntities'[i].x >= 5 * Unit /\ arEntities'[i].x <= 95 * Unit
                 /\ arEntities'[i].y >= 5 * Unit /\ arEntities'[i].y <= 95 * Unit
                 /\ Abs(arEntities'[i].vx) <= (25 * Unit) \div 1000
                 /\ Abs(arEntities'[i].vy) <= (25 * Unit) \div 1000
                 /\ arEntities'[i].ax = 0
                 /\ arEntities'[i].ay = 0 ]_vars

\* An entity spawned at the point (102, 50) of the edge, which the clamp
\* has brought back to x = 95, in a scene with an object without
\* polylines and an empty polyline.
C13_Witness ==
    /\ lastOp = "reconcile"
    /\ sceneObjects = <<BareObject, EdgeObject>>
    /\ \E i \in 1 .. Len(arEntities) :
          /\ "isInteracting" \notin DOMAIN arEntities[i]
          /\ arEntities[i].x = 95 * Unit
          /\ arEntities[i].y = 50 * Unit

PointForce(x, y, p) ==
    LET d == Hypot(x - p.x, y - p.y)
        magnitude == TruncDiv(12 * Unit - d, 10000)
    IN IF d > 0 /\ d < 12 * Unit
       THEN [x |-> TruncDiv((x - p.x) * magnitude, d),
             y |-> TruncDiv((y - p.y) * magnitude, d)]
       ELSE [x |-> 0, y |-> 0]

RECURSIVE SumOfForces(_, _, _, _)
SumOfForces(x, y, points, j) ==
    IF j > Len(points) THEN [x |-> 0, y |-> 0]
    ELSE [x |-> PointForce(x, y, points[j]).x + SumOfForces(x, y, points, j + 1).x,
          y |-> PointForce(x, y, points[j]).y + SumOfForces(x, y, points, j + 1).y]

\* C16: a frame on a non-contained entity leaves it interacting exactly
\* when some scene point is less than 12 from its position before the
\* integration, and its acceleration is the drift plus, for every point at
\* a distance d with 0 < d < 12, a force of magnitude (12 - d) * 0.0001
\* directed from the point to the entity; points at distance 0 or at 12
\* and beyond add nothing.
C16_RepulsionByScenePoints ==
    (probe.fn = "updateAREntities" /\ probe.done)
    => LET e == probe.entity
           n == probe.result.entities[1]
           points == ScenePoints(probe.activeSceneObjects)
       IN /\ n.isInteracting
             <=> \E j \in 1 .. Len(points) :
                    Hypot(e.x - points[j].x, e.y - points[j].y) < 12 * Unit
          /\ n.ax = SumOfForces(e.x, e.y, points, 1).x
          /\ n.ay = 2 + SumOfForces(e.x, e.y, points, 1).y

\* The entity at (43, 44), five from the door's point (40, 40): a force of
\* 0.0007 along (3, 4) / 5.
C16_Witness ==
    /\ probe.fn = "updateAREntities"
    /\ probe.done
    /\ probe.activeSceneObjects = <<DoorObject>>
    /\ probe.entity.x = 43 * Unit
    /\ probe.result.entities[1].isInteracting
    /\ probe.result.entities[1].ax = 42
    /\ probe.result.entities[1].ay = 58

UsableGeometry(activeSceneObjects) ==
    \E o \in 1 .. Len(activeSceneObjects) :
       \E l \in 1 .. Len(activeSceneObjects[o].polylines) :
          Len(activeSceneObjects[o].polylines[l]) > 0

\* Position pos is the point p offset by at most 4 in each coordinate and
\* then clamped to [5, 95].
NearPoint(pos, p) ==
    /\ pos.x >= Clamp(5 * Unit, 95 * Unit, p.x - 4 * Unit)
    /\ pos.x <= Clamp(5 * Unit, 95 * Unit, p.x + 4 * Unit)
    /\ pos.y >= Clamp(5 * Unit, 95 * Unit, p.y - 4 * Unit)
    /\ pos.y <= Clamp(5 * Unit, 95 * Unit, p.y + 4 * Unit)

\* C17: when the 0.7 draw succeeds and some scene object has a non-empty
\* polyline, the spawn position is a point of a polyline of a scene
\* object, offset by at most 4 in each coordinate and clamped to [5, 95];
\* the peripheral fallback is used only when the draw fails or no scene
\* object has a non-empty polyline.
C17_SpawnNearGeometry ==
    ( /\ probe.fn = "getNewSpawnPosition"
      /\ probe.done
      /\ UsableGeometry(probe.activeSceneObjects)
      /\ 10 * probe.rs[1] < 7 * RandDen )
    => /\ probe.result.near
       /\ \E j \in 1 .. Len(ScenePoints(probe.activeSceneObjects)) :
             NearPoint(probe.result, ScenePoints(probe.activeSceneObjects)[j])

\* C18: every position the peripheral fallback yields has x <= 35 or
\* x >= 65 or y <= 35 or y >= 65, and lies within [5, 95] x [5, 95].
C18_PeripheralOutsideCentre ==
    (probe.fn = "getNewSpawnPosition" /\ probe.done /\ ~probe.result.near)
    => /\ \/ probe.result.x <= 35 * Unit
          \/ probe.result.x >= 65 * Unit
          \/ probe.result.y <= 35 * Unit
          \/ probe.result.y >= 65 * Unit
       /\ probe.result.x >= 5 * Unit /\ probe.result.x <= 95 * Unit
       /\ probe.result.y >= 5 * Unit /\ probe.result.y <= 95 * Unit

\* A fallback spawn at the inner edge of the left band, after the 0.7 draw
\* failed in a scene that has geometry.
C18_Witness ==
    /\ probe.fn = "getNewSpawnPosition"
    /\ probe.done
    /\ ~probe.result.near
    /\ probe.activeSceneObjects = <<EdgeObject, NearEdgeObject>>
    /\ probe.result.y = 5 * Unit
    /\ probe.result.x < 35 * Unit
    /\ probe.result.x > 34 * Unit

(***************************************************************************)
(* Claims about the scan gate, checked under SpecScan.                     *)
(***************************************************************************)
ScanCalled == lastOp' \in {"scanIgnored", "scanRejected", "scanAccepted"}

\* C7: scanEnvironment() called with no scan in flight and a balance below
\* scanCost sets a non-null scan error, issues no capture or scene-analysis
\* request, and leaves the balance, the scan-in-progress flag (false) and
\* the scene-object set as they were.
C7_InsufficientCreditsRejected ==
    [][ (ScanCalled /\ ~isScanningEnvironment /\ credits < scanCost)
        => /\ scanError' # Null
           /\ scans' = scans
           /\ credits' = credits
           /\ isScanningEnvironment' = FALSE
           /\ sceneObjects' = sceneObjects ]_vars

C7_Witness ==
    /\ lastOp = "scanRejected"
    /\ scanError = InsufficientCredits
    /\ credits < scanCost
    /\ sceneObjects # << >>

ScanCallFailed == lastOp' \in {"captureRejected", "analysisRejected"}

\* C8: when the capture or the scene analysis of an accepted scan fails,
\* the call completes without propagating an exception (its promise
\* fulfils), the balance is the one from before the call, the
\* scan-in-progress flag is false and a non-null scan error is set.
C8_FailedScanRefunded ==
    [][ ScanCallFailed
        => /\ scanPromise' = "fulfilled"
           /\ \E i \in 1 .. Len(scans) :
                 /\ scans' = RemoveAt(scans, i)
                 /\ credits' = scans[i].balance
           /\ isScanningEnvironment' = FALSE
           /\ scanError' # Null ]_vars

C8_Witness ==
    /\ lastOp = "analysisRejected"
    /\ scanError = SceneAnalysisFailed
    /\ credits >= scanCost
    /\ ~isScanningEnvironment

\* C9: at most one scan is in flight at any time, and a scanEnvironment()
\* call made while scan-in-progress is true spends no credits, issues no
\* capture or scene-analysis request and changes neither the scan error,
\* the scene-object set nor the flag.
C9_SingleScanInFlight ==
    /\ [](Len(scans) <= 1 /\ (isScanningEnvironment <=> Len(scans) = 1))
    /\ [][ (ScanCalled /\ isScanningEnvironment)
           => /\ credits' = credits
              /\ scans' = scans
              /\ scanError' = scanError
              /\ sceneObjects' = sceneObjects
              /\ isScanningEnvironment' = isScanningEnvironment ]_vars

C9_Witness ==
    /\ lastOp = "scanIgnored"
    /\ isScanningEnvironment
    /\ credits >= scanCost
    /\ Len(scans) = 1

\* C10: after a scan succeeds the scene-object set equals that scan's
\* result for the 15 seconds following its completion, unless a new scan is
\* started in between, and is empty once the 15 seconds have elapsed and
\* the callbacks due have run.
C10_SceneHeldFor15s ==
    scanDone # Null
    => IF now < scanDone.at + SceneClearDelay
       THEN sceneObjects = scanDone.objects
       ELSE (\A t \in timers : t.due > now) => sceneObjects = << >>

(***************************************************************************)
(* The scan error is transient, checked under SpecScan.                    *)
(***************************************************************************)
\* C19: whenever the scan error is set, no more than 4 seconds have passed
\* since it was last set and a callback that clears it is due 4 seconds
\* after that moment, the clock not moving past a due callback; so the
\* error is null again within 4 seconds of having been set, whether a
\* rejection or a failed scan raised it.
C19_ErrorClearsWithinDelay ==
    scanError # Null
    => /\ errorSetAt # Undefined
       /\ now <= errorSetAt + ErrorClearDelay
       /\ \E t \in timers :
             t.kind = "clearError" /\ t.due = errorSetAt + ErrorClearDelay

\* The error of a failed scan four seconds after it was set, its callback
\* due and about to run.
C19_Witness ==
    /\ scanError = SceneAnalysisFailed
    /\ lastOp = "tick"
    /\ now = errorSetAt + ErrorClearDelay
    /\ \E t \in timers : t.kind = "clearError" /\ t.due = now

(***************************************************************************)
(* Credit accounting of the scan gate, checked under SpecScan.             *)
(***************************************************************************)
\* C22: a scanEnvironment() call that is ignored or rejected leaves the
\* balance as it was, one that succeeds completes with the balance 5 below
\* the one it was called with and one that fails completes with the balance
\* it was called with; so the balance is always the initial balance minus
\* 5 for every scan that succeeded and minus 5 for a scan in flight.
C22_CreditAccounting ==
    /\ [](credits = ledger.initial - scanCost * ledger.succeeded
                                   - scanCost * Len(scans))
    /\ [][ /\ lastOp' \in {"scanIgnored", "scanRejected"} => credits' = credits
           /\ lastOp' = "analysisResolved"
              => \E i \in 1 .. Len(scans) :
                    /\ scans' = RemoveAt(scans, i)
                    /\ credits' = scans[i].balance - scanCost
           /\ ScanCallFailed
              => \E i \in 1 .. Len(scans) :
                    /\ scans' = RemoveAt(scans, i)
                    /\ credits' = scans[i].balance ]_vars

\* A second scan in flight after a first that succeeded.
C22_Witness ==
    /\ ledger.succeeded = 1
    /\ Len(scans) = 1
    /\ credits = ledger.initial - 2 * scanCost

(***************************************************************************)
(* The scene-object set while a scan runs, checked under SpecScan.         *)
(***************************************************************************)
\* C24: whenever the scan-in-progress flag is true the scene-object set is
\* empty, whatever callbacks of earlier scans run meanwhile; and a scan
\* that fails leaves the set empty.
C24_NoSceneWhileScanning ==
    /\ [](isScanningEnvironment => sceneObjects = << >>)
    /\ [][ScanCallFailed => sceneObjects' = << >>]_vars

\* A scan failed while the expiry callback of an earlier, successful scan
\* is still pending.
C24_Witness ==
    /\ lastOp \in {"captureRejected", "analysisRejected"}
    /\ ~isScanningEnvironment
    /\ sceneObjects = << >>
    /\ \E t \in timers : t.kind = "clearScene" /\ t.due > now

(***************************************************************************)
(* The targeted entity across reconciliations, checked under SpecPhys.     *)
(***************************************************************************)
\* C23: in every state a targeted entity that is not null has the id of an
\* entity of the simulated list.
C23_TargetIsListed ==
    targetedEntity # Null => targetedEntity.id \in Ids(arEntities)

(***************************************************************************)
(* The scan gate of a component that is torn down: ngOnDestroy() may run  *)
(* at any moment, with a scan in flight and callbacks pending.  The view  *)
(* is gone after it, so scanEnvironment() is not called again.            *)
(***************************************************************************)
InitTeardown == Init /\ credits \in {scanCost, 2 * scanCost}

NextTeardown ==
    \/ lifecycle # "destroyed" /\ scanEnvironment
    \/ \E i \in 1 .. Len(scans) : CaptureResolved(i)
    \/ \E i \in 1 .. Len(scans) : \E objects \in AnalysisResults :
           AnalysisResolved(i, objects)
    \/ \E i \in 1 .. Len(scans) : CaptureRejected(i)
    \/ \E i \in 1 .. Len(scans) : AnalysisRejected(i)
    \/ \E t \in timers : TimerFired(t)
    \/ \E d \in TickSteps : Tick(d)
    \/ ngOnDestroy

SpecTeardown == InitTeardown /\ [][NextTeardown]_vars

\* C21: once ngOnDestroy() has run, no step (a scene-expiry callback, an
\* error-clearing callback, the completion of a scan) changes the
\* scene-object set, the scan error or the scan-in-progress flag.
C21_NoMutationAfterDisposal ==
    [][ lifecycle = "destroyed"
        => /\ sceneObjects' = sceneObjects
           /\ scanError' = scanError
           /\ isScanningEnvironment' = isScanningEnvironment ]_vars

(***************************************************************************)
(* Completion of a scan.  The promises of CameraPreview.capture() and of   *)
(* GeminiService.analyzeScene() settle: a continuation that is waiting on  *)
(* one of them is eventually run.                                          *)
(***************************************************************************)
Settle ==
    \E i \in 1 .. Len(scans) :
       \/ CaptureResolved(i)
       \/ \E objects \in AnalysisResults : AnalysisResolved(i, objects)
       \/ CaptureRejected(i)
       \/ AnalysisRejected(i)

InitSettle == Init /\ credits \in {scanCost, 2 * scanCost}

SpecSettle == InitSettle /\ [][NextScan]_vars /\ WF_vars(Settle)

\* The scan-in-progress flag is true exactly while a scanEnvironment() call
\* waits on a collaborator, and every such call comes to its end.
ScanRunsToCompletion ==
    /\ [](isScanningEnvironment <=> Len(scans) > 0)
    /\ isScanningEnvironment ~> ~isScanningEnvironment

\* C25 as stated: every accepted scan whose collaborator calls settle
\* reaches a state where the flag is false, the flag being true only
\* between acceptance and settlement; and a scanEnvironment() call made
\* after a scan has completed is accepted again.
C25_ScanCompletesAndIsAcceptedAgain ==
    /\ ScanRunsToCompletion
    /\ [][ (ScanCalled /\ ~isScanningEnvironment /\ scanPromise = "fulfilled")
           => /\ lastOp' = "scanAccepted"
              /\ isScanningEnvironment' ]_vars

\* C25 amended: every accepted scan whose collaborator calls settle
\* reaches a state where the flag is false, the flag being true only
\* between acceptance and settlement; and a scanEnvironment() call made
\* after a scan has completed is accepted again provided the balance
\* covers the cost, and is rejected for insufficient credits otherwise.
C25_ScanCompletesAndGateReopens ==
    /\ ScanRunsToCompletion
    /\ [][ (ScanCalled /\ ~isScanningEnvironment /\ scanPromise = "fulfilled")
           => IF credits >= scanCost
              THEN /\ lastOp' = "scanAccepted"
                   /\ isScanningEnvironment'
                   /\ Len(scans') = 1
              ELSE /\ lastOp' = "scanRejected"
                   /\ ~isScanningEnvironment'
                   /\ scans' = scans ]_vars

\* A scan accepted after an earlier scan ran to its end and succeeded.
C25_Witness ==
    /\ lastOp = "scanAccepted"
    /\ isScanningEnvironment
    /\ ledger.succeeded = 1
    /\ scans = <<[stage |-> "capture", balance |-> scanCost]>>

=============================================================================
